---- MODULE Spec2Model ----
(***************************************************************************)
(* A model of the asynchronous exercises of the repository                 *)
(*   level90/home/js.js   MyPromise (random success / failure)             *)
(*   level91/work/js.js   myPromise, chainPromise, conditionalPromise      *)
(*   level92/home/js.js   Promise.all([p1,p2,p3]) and runSequential()      *)
(* and of the local-storage roster of 100levelGOA/js.js.                   *)
(*                                                                         *)
(* The promise programs run on one JavaScript event loop: a script that    *)
(* runs statement by statement to completion, a microtask (job) queue and  *)
(* a set of timers.  Promise, then, await and Promise.all are the          *)
(* language's built-ins; they are modelled by their ECMAScript algorithms  *)
(* at the places where the source uses them.                               *)
(***************************************************************************)
EXTENDS Integers, Sequences, FiniteSets, TLC

VARIABLES
    program,        \* which script is loaded
    n,              \* level92: how many of p1..p3 are handed to Promise.all
    delay,          \* level92: delay[i] of the i-th timer (ms)
    outcome,        \* level92: "resolve" or "reject", what the i-th timer calls
    success,        \* level91: the flag conditionalPromise's executor tests
    pc,             \* next statement of the script
    promises,       \* the heap of promise objects
    microtasks,     \* the job queue
    timers,         \* pending setTimeout callbacks
    now,            \* the clock (ms)
    timerSeq,       \* setTimeout registration counter
    nextRid,        \* reaction (handler registration) counter
    trace,          \* what happened, in order
    all,            \* Promise.all's internal record
    ref,            \* the script's names for its promises
    \* 100levelGOA/js.js
    storage,        \* localStorage's item "classes": absent, or its JSON text
    classes,        \* the global classes: null or a list of classes
    selectedClass,  \* index of the selected class, -1 for none
    studentname,    \* value of the input #studentname
    classBox,       \* the buttons shown in #class (their labels)
    classname,      \* text of #classname
    studentlist,    \* the items shown in #studentlist
    loaded,         \* whether the script has been run
    lastOp,         \* the last operation that ran
    error,          \* the exception it ended with, "none" if it returned
    \* project/js2.js
    copy,           \* which of the file's two copies of the game is running
    points,         \* the global points
    pointsDisplay,  \* innerText of #pointsDisplay
    pointsText,     \* the property Text of #pointsDisplay (second copy)
    message,        \* what the last buySword wrote to #message
    mobs,           \* the number of "Mob Spawned!" divs appended to the body
    earned,         \* how many points have been added so far
    called,         \* the last game function that was called
    \* unnamed/part_003, the typing animation
    wIndex,         \* index of the current word (from 0)
    cIndex,         \* number of characters to show next
    deleting,       \* erasing (TRUE) or typing (FALSE)
    typingText,     \* textContent of .typing
    typeStarted     \* whether type() has run at least once

promiseVars == <<program, n, delay, outcome, success, pc, promises, microtasks,
                 timers, now, timerSeq, nextRid, trace, all, ref>>

rosterVars == <<storage, classes, selectedClass, studentname, classBox, classname,
                studentlist, loaded, lastOp, error>>

gameVars == <<copy, points, pointsDisplay, pointsText, message, mobs, earned, called>>

typeVars == <<wIndex, cIndex, deleting, typingText, typeStarted>>

vars == <<promiseVars, rosterVars, gameVars, typeVars>>

(* the game page is not open *)
GameIdle ==
    /\ copy = 1
    /\ points = 0
    /\ pointsDisplay = 0
    /\ pointsText = 0
    /\ message = [innerText |-> "none", Text |-> "none"]
    /\ mobs = 0
    /\ earned = 0
    /\ called = "none"

(* the page with the typing animation is not open *)
TypeIdle ==
    /\ wIndex = 0
    /\ cIndex = 0
    /\ deleting = FALSE
    /\ typingText = <<>>
    /\ typeStarted = FALSE

----------------------------------------------------------------------------
(* JavaScript values *)
Str(x) == [str |-> x]
Num(x) == [num |-> x]
Arr(x) == [arr |-> x]
Undefined == [undef |-> TRUE]
None == [none |-> TRUE]          \* an empty slot (no value / no error)

(* level92: the values of p1, p2, p3 and of first(), second(), third() *)
Values == <<"First", "Second", "Third">>
NumPromises == 3
NumSteps == 3
(* level92: the delays the source uses, first index = p1 / first() *)
Delays == {1000, 1500, 2000}
SourceDelay == <<1000, 2000, 1500>>

(* level90 *)
students == <<"nika", "nika", "gio", "alexi">>
MyPromiseDelay == 5000
(* level91 *)
myPromiseDelay == 1000

Programs == {"level90", "level91", "level92par", "level92seq"}

Handler(f, a) == [fn |-> f, arg |-> a]
NoHandler == Handler("none", 0)

----------------------------------------------------------------------------
(* The engine works on a record s of the event loop's state. *)
St == [promises |-> promises, microtasks |-> microtasks, timers |-> timers,
       now |-> now, timerSeq |-> timerSeq, nextRid |-> nextRid, trace |-> trace,
       all |-> all, ref |-> ref, busy |-> FALSE]

Install(s) ==
    /\ promises' = s.promises
    /\ microtasks' = s.microtasks
    /\ timers' = s.timers
    /\ now' = s.now
    /\ timerSeq' = s.timerSeq
    /\ nextRid' = s.nextRid
    /\ trace' = s.trace
    /\ all' = s.all
    /\ ref' = s.ref

Emit(s, e) == [s EXCEPT !.trace = Append(@, e)]

(* new Promise(...): a pending promise with no reactions *)
NewPromise(s) ==
    [s EXCEPT !.promises = Append(@, [state |-> "pending", value |-> None,
                                      error |-> None, reactions |-> <<>>])]
Last(s) == Len(s.promises)

(* One job per reaction, in registration order. *)
TriggerReactions(s, reactions, kind, arg) ==
    [s EXCEPT !.microtasks = @ \o
        [i \in 1..Len(reactions) |->
            [reaction |-> reactions[i], kind |-> kind, arg |-> arg]]]

(* A resolving function that forgot the "already resolved" check. *)
settleAgain(s, p, kind, v) ==
    LET rs == s.promises[p].reactions
        s1 == [s EXCEPT !.promises[p] =
                 [state |-> kind,
                  value |-> IF kind = "fulfilled" THEN v ELSE @.value,
                  error |-> IF kind = "rejected" THEN v ELSE @.error,
                  reactions |-> <<>>]]
    IN TriggerReactions(Emit(s1, [ev |-> "settle", p |-> p, kind |-> kind]),
                        rs, kind, v)

(* resolve(v) / reject(e): the first call settles the promise and queues its
   reactions; every later call is ignored. *)
settle(s, p, kind, v) ==
    IF s.promises[p].state # "pending"
    THEN Emit(s, [ev |-> "ignored", p |-> p, kind |-> kind])
    ELSE LET rs == s.promises[p].reactions
             s1 == [s EXCEPT !.promises[p] =
                      [state |-> kind,
                       value |-> IF kind = "fulfilled" THEN v ELSE None,
                       error |-> IF kind = "rejected" THEN v ELSE None,
                       reactions |-> <<>>]]
         IN TriggerReactions(Emit(s1, [ev |-> "settle", p |-> p, kind |-> kind]),
                             rs, kind, v)

resolve(s, p, v) == settle(s, p, "fulfilled", v)
reject(s, p, e) == settle(s, p, "rejected", e)

Outcome(s, p) ==
    IF s.promises[p].state = "fulfilled" THEN s.promises[p].value
    ELSE s.promises[p].error

setTimeout(s, cb, ms) ==
    [s EXCEPT !.timers = @ \cup {[due |-> s.now + ms, seq |-> s.timerSeq, cb |-> cb]},
              !.timerSeq = @ + 1]

Ret(s, v) == [s |-> s, threw |-> FALSE, val |-> v]

RECURSIVE Call(_, _, _)

(* PromiseReactionJob: run the handler that matches the outcome (a missing
   handler passes the outcome through) and settle the derived promise with
   what the handler returned or threw. *)
RunJob(s, job) ==
    LET h == IF job.kind = "fulfilled" THEN job.reaction.onFulfilled
             ELSE job.reaction.onRejected
        d == job.reaction.derived
        s0 == Emit(s, [ev |-> "run", rid |-> job.reaction.rid, kind |-> job.kind,
                       arg |-> job.arg, nested |-> s.busy])
        r == IF h.fn = "none"
             THEN [s |-> s, threw |-> (job.kind = "rejected"), val |-> job.arg]
             ELSE Call([s0 EXCEPT !.busy = TRUE], h, job.arg)
        s1 == [r.s EXCEPT !.busy = s.busy]
    IN IF d = 0 THEN s1
       ELSE IF r.threw THEN reject(s1, d, r.val) ELSE resolve(s1, d, r.val)

Reaction(s, onF, onR, d) ==
    [onFulfilled |-> onF, onRejected |-> onR, derived |-> d, rid |-> s.nextRid]

Registered(s, p, onF, onR) ==
    Emit([s EXCEPT !.nextRid = @ + 1],
         [ev |-> "register", rid |-> s.nextRid, p |-> p,
          state |-> s.promises[p].state,
          hasF |-> (onF.fn # "none"), hasR |-> (onR.fn # "none")])

(* A then() that only ever stores the reaction, also on a settled promise. *)
PerformPromiseThenLost(s, p, onF, onR, d) ==
    [Registered(s, p, onF, onR) EXCEPT
        !.promises[p].reactions = Append(@, Reaction(s, onF, onR, d))]

(* A then() that calls the handler at once when the promise is settled. *)
PerformPromiseThenSync(s, p, onF, onR, d) ==
    LET r == Reaction(s, onF, onR, d)
        st == s.promises[p].state
        s1 == Registered(s, p, onF, onR)
    IN IF st = "pending"
       THEN [s1 EXCEPT !.promises[p].reactions = Append(@, r)]
       ELSE RunJob(s1, [reaction |-> r, kind |-> st, arg |-> Outcome(s, p)])

(* PerformPromiseThen: on a pending promise the reaction is stored; on a
   settled one a job for it is queued.  The handler is never called here. *)
PerformPromiseThen(s, p, onF, onR, d) ==
    LET r == Reaction(s, onF, onR, d)
        st == s.promises[p].state
        s1 == Registered(s, p, onF, onR)
    IN IF st = "pending"
       THEN [s1 EXCEPT !.promises[p].reactions = Append(@, r)]
       ELSE TriggerReactions(s1, <<r>>, st, Outcome(s, p))

(* p.then(onF, onR): returns a new promise, Last(then(...)) *)
then(s, p, onF, onR) ==
    LET s1 == NewPromise(s) IN
    [PerformPromiseThen(s1, p, onF, onR, Last(s1)) EXCEPT !.ref.last = Last(s1)]

(* await p inside an async function: no derived promise *)
await(s, p, onF, onR) == PerformPromiseThen(s, p, onF, onR, 0)

----------------------------------------------------------------------------
(* level92, Promise.all([p1, p2, p3]) *)

(* The loop of Promise.all over its inputs: inputs[i].then(resolveElement_i,
   reject of the result), one more remaining element each. *)
RECURSIVE PromiseAllLoop(_, _, _)
PromiseAllLoop(s, inputs, i) ==
    IF i > Len(inputs) THEN s
    ELSE LET s1 == [s EXCEPT !.all.values = Append(@, Undefined),
                             !.all.remaining = @ + 1]
             s2 == then(s1, inputs[i], Handler("allResolveElement", i),
                        Handler("allReject", 0))
         IN PromiseAllLoop(s2, inputs, i + 1)

(* A Promise.all that only settles from its element functions. *)
PromiseAllNoEmpty(s, inputs) ==
    LET s1 == NewPromise(s)
        s2 == [s1 EXCEPT !.all = [result |-> Last(s1), values |-> <<>>,
                                  remaining |-> 0, called |-> {}]]
    IN PromiseAllLoop(s2, inputs, 1)

(* Promise.all(inputs): the result promise is s.all.result *)
PromiseAll(s, inputs) ==
    LET s1 == NewPromise(s)
        s2 == [s1 EXCEPT !.all = [result |-> Last(s1), values |-> <<>>,
                                  remaining |-> 1, called |-> {}]]
        s3 == PromiseAllLoop(s2, inputs, 1)
        s4 == [s3 EXCEPT !.all.remaining = @ - 1]
    IN IF s4.all.remaining = 0
       THEN resolve(s4, s4.all.result, Arr(s4.all.values))
       ELSE s4

(* An element function that stores values in the order they arrive. *)
allResolveElementArrival(s, i, x) ==
    LET k == Cardinality(s.all.called) + 1
        s1 == [s EXCEPT !.all.values[k] = x,
                        !.all.called = @ \cup {i},
                        !.all.remaining = @ - 1]
    IN IF s1.all.remaining = 0
       THEN resolve(s1, s1.all.result, Arr(s1.all.values))
       ELSE s1

(* Promise.all's resolve element function of input i *)
allResolveElement(s, i, x) ==
    IF i \in s.all.called THEN s
    ELSE LET s1 == [s EXCEPT !.all.values[i] = x,
                             !.all.called = @ \cup {i},
                             !.all.remaining = @ - 1]
         IN IF s1.all.remaining = 0
            THEN resolve(s1, s1.all.result, Arr(s1.all.values))
            ELSE s1

(* A join whose reject overwrites an earlier rejection with a later one. *)
allRejectLast(s, e) == settleAgain(s, s.all.result, "rejected", e)

(* the reject function Promise.all hands to every input's then() *)
allReject(s, e) == reject(s, s.all.result, e)

(* const p_i = new Promise(resolve => setTimeout(() => resolve(Values[i]), delay[i]))
   (the source's callbacks all call resolve; outcome[i] lets one call reject) *)
newInput(s, i) ==
    LET s1 == NewPromise(s)
    IN setTimeout([s1 EXCEPT !.ref.p[i] = Last(s1)],
                  Handler("settleInput", i), delay[i])

----------------------------------------------------------------------------
(* level92, runSequential *)

(* async function first / second / third: the call creates the function's
   promise, starts the timer promise and suspends at the await. *)
callStep(s, k) ==
    LET s1 == NewPromise(s)
        s2 == Emit([s1 EXCEPT !.ref.step[k] = Last(s1)], [ev |-> "invoke", k |-> k])
        s3 == NewPromise(s2)
        s4 == setTimeout([s3 EXCEPT !.ref.inner[k] = Last(s3)],
                         Handler("stepTimer", k), delay[k])
    IN await(s4, Last(s3), Handler("resumeStep", k), Handler("throwStep", k))

(* A runSequential that starts the next step without awaiting this one. *)
awaitStepEager(s, k) ==
    LET s1 == callStep(s, k)
        s2 == await(s1, s1.ref.step[k], Handler("resumeSeq", k), Handler("throwSeq", k))
    IN IF k < NumSteps THEN callStep(s2, k + 1) ELSE s2

(* const result_k = await step_k() *)
awaitStep(s, k) ==
    LET s1 == callStep(s, k)
    IN await(s1, s1.ref.step[k], Handler("resumeSeq", k), Handler("throwSeq", k))

(* A runSequential that swallows a step's rejection and carries on. *)
throwSeqSwallow(s, k, e) ==
    IF k < NumSteps THEN awaitStep(s, k + 1) ELSE resolve(s, s.ref.seq, Undefined)

(* an await in runSequential throws: no try/catch, so runSequential's
   promise is rejected with what was thrown *)
throwSeq(s, k, e) == reject(s, s.ref.seq, e)

(* runSequential after "result_k = await ...": log it, go on to the next step *)
resumeSeq(s, k, v) ==
    LET s1 == Emit(s, [ev |-> "log", v |-> v])
    IN IF k < NumSteps THEN awaitStep(s1, k + 1)
       ELSE resolve(s1, s1.ref.seq, Undefined)

runSequential(s) ==
    LET s1 == NewPromise(s)
    IN awaitStep([s1 EXCEPT !.ref.seq = Last(s1)], 1)

----------------------------------------------------------------------------
(* level90: the body of MyPromise's timer callback, randomIndex in 0..3 *)
pickStudent(s, randomIndex) ==
    LET randomName == students[randomIndex + 1]
    IN IF Len(randomName) > 5
       THEN resolve(s, s.ref.MyPromise, Str("success"))
       ELSE reject(s, s.ref.MyPromise, Str("failure"))

(* Every callback of the sources: h names it, x is its argument. *)
Call(s, h, x) ==
    CASE h.fn = "log" -> Ret(Emit(s, [ev |-> "log", v |-> x]), Undefined)
      [] h.fn = "add5" -> Ret(s, Num(x.num + 5))
      [] h.fn = "times2" -> Ret(s, Num(x.num * 2))
      [] h.fn = "allResolveElement" -> Ret(allResolveElement(s, h.arg, x), Undefined)
      [] h.fn = "allReject" -> Ret(allReject(s, x), Undefined)
      [] h.fn = "settleInput" ->
            Ret(IF outcome[h.arg] = "resolve"
                THEN resolve(s, s.ref.p[h.arg], Str(Values[h.arg]))
                ELSE reject(s, s.ref.p[h.arg], Str(Values[h.arg])), Undefined)
      [] h.fn = "stepTimer" ->
            Ret(IF outcome[h.arg] = "resolve"
                THEN resolve(s, s.ref.inner[h.arg], Undefined)
                ELSE reject(s, s.ref.inner[h.arg], Str(Values[h.arg])), Undefined)
      [] h.fn = "resumeStep" ->
            Ret(resolve(s, s.ref.step[h.arg], Str(Values[h.arg])), Undefined)
      [] h.fn = "throwStep" -> Ret(reject(s, s.ref.step[h.arg], x), Undefined)
      [] h.fn = "resumeSeq" -> Ret(resumeSeq(s, h.arg, x), Undefined)
      [] h.fn = "throwSeq" -> Ret(throwSeq(s, h.arg, x), Undefined)
      [] h.fn = "dataLoaded" ->
            Ret(resolve(s, s.ref.myPromise, Str("Data loaded successfully!")), Undefined)
      [] h.fn = "pickStudent" -> Ret(pickStudent(s, x.num), Undefined)

----------------------------------------------------------------------------
(* The scripts, one statement per step. *)

Log == Handler("log", 0)

(* level92/home/js.js lines 1-7 *)
level92par(s, at) ==
    IF at <= NumPromises THEN newInput(s, at)
    ELSE LET s1 == PromiseAll(s, SubSeq(s.ref.p, 1, n))
         IN then(s1, s1.all.result, Log, NoHandler)

(* level92/home/js.js line 34 *)
level92seq(s, at) == runSequential(s)

(* level91/work/js.js *)
level91(s, at) ==
    CASE at = 1 ->
            LET s1 == NewPromise(s)
            IN setTimeout([s1 EXCEPT !.ref.myPromise = Last(s1)],
                          Handler("dataLoaded", 0), myPromiseDelay)
      [] at = 2 ->
            LET s1 == then(s, s.ref.myPromise, Log, NoHandler)
            IN then(s1, s1.ref.last, NoHandler, Log)
      [] at = 3 ->
            LET s1 == NewPromise(s)
            IN resolve([s1 EXCEPT !.ref.chainPromise = Last(s1)], Last(s1), Num(5))
      [] at = 4 ->
            LET s1 == then(s, s.ref.chainPromise, Handler("add5", 0), NoHandler)
                s2 == then(s1, s1.ref.last, Handler("times2", 0), NoHandler)
            IN then(s2, s2.ref.last, Log, NoHandler)
      [] at = 5 ->
            LET s1 == NewPromise(s)
                s2 == [s1 EXCEPT !.ref.conditionalPromise = Last(s1)]
            IN IF success
               THEN resolve(s2, Last(s1), Str("Operation successful!"))
               ELSE reject(s2, Last(s1), Str("Operation failed!"))
      [] at = 6 -> then(s, s.ref.conditionalPromise, Log, Log)

(* level90/home/js.js *)
level90(s, at) ==
    LET s1 == NewPromise(s)
    IN setTimeout([s1 EXCEPT !.ref.MyPromise = Last(s1)],
                  Handler("pickStudent", 0), MyPromiseDelay)

ScriptLen ==
    CASE program = "level92par" -> NumPromises + 1
      [] program = "level92seq" -> 1
      [] program = "level91" -> 6
      [] program = "level90" -> 1

ScriptDone == pc > ScriptLen

----------------------------------------------------------------------------
InitLoop ==
    /\ pc = 1
    /\ promises = <<>>
    /\ microtasks = <<>>
    /\ timers = {}
    /\ now = 0
    /\ timerSeq = 0
    /\ nextRid = 1
    /\ trace = <<>>
    /\ all = [result |-> 0, values |-> <<>>, remaining |-> 0, called |-> {}]
    /\ ref = [p |-> [i \in 1..NumPromises |-> 0],
              step |-> [i \in 1..NumSteps |-> 0],
              inner |-> [i \in 1..NumSteps |-> 0],
              seq |-> 0, MyPromise |-> 0, myPromise |-> 0, chainPromise |-> 0,
              conditionalPromise |-> 0, last |-> 0]

(* The inputs.  level92: which prefix of [p1,p2,p3] is joined, each timer's
   delay and whether its callback resolves (as in the source) or rejects.
   level91: the value of the executor's local flag. *)
InitInputs ==
    /\ program \in Programs
    /\ IF program = "level92par" THEN n \in 0..NumPromises ELSE n = NumSteps
    /\ IF program \in {"level92par", "level92seq"}
       THEN /\ delay \in [1..NumPromises -> Delays]
            /\ outcome \in [1..NumPromises -> {"resolve", "reject"}]
       ELSE /\ delay = SourceDelay
            /\ outcome = [i \in 1..NumPromises |-> "resolve"]
    /\ IF program = "level91" THEN success \in BOOLEAN ELSE success = TRUE

(* the roster page is not open *)
RosterIdle ==
    /\ storage = [present |-> FALSE, text |-> <<>>]
    /\ classes = [null |-> TRUE, list |-> <<>>]
    /\ selectedClass = -1
    /\ studentname = <<>>
    /\ classBox = <<>>
    /\ classname = <<>>
    /\ studentlist = <<>>
    /\ loaded = FALSE
    /\ lastOp = "none"
    /\ error = "none"

Init == InitInputs /\ InitLoop /\ RosterIdle /\ GameIdle /\ TypeIdle

Run(s) == Install([s EXCEPT !.busy = FALSE])

(* the next statement of the loaded script *)
Script ==
    /\ ~ScriptDone
    /\ pc' = pc + 1
    /\ LET s == [St EXCEPT !.busy = TRUE]
       IN \/ program = "level92par" /\ Run(level92par(s, pc))
          \/ program = "level92seq" /\ Run(level92seq(s, pc))
          \/ program = "level91" /\ Run(level91(s, pc))
          \/ program = "level90" /\ Run(level90(s, pc))
    /\ UNCHANGED <<program, n, delay, outcome, success>>
    /\ UNCHANGED <<rosterVars, gameVars, typeVars>>

(* the first job of the queue, once the running script has returned *)
RunMicrotask ==
    /\ ScriptDone
    /\ microtasks # <<>>
    /\ Run(RunJob([St EXCEPT !.microtasks = Tail(@)], Head(microtasks)))
    /\ UNCHANGED <<program, n, delay, outcome, success, pc>>
    /\ UNCHANGED <<rosterVars, gameVars, typeVars>>

Earliest(t) ==
    \A u \in timers : t.due < u.due \/ (t.due = u.due /\ t.seq <= u.seq)

(* a timer callback: the earliest timer, when nothing else is running *)
FireTimer ==
    /\ ScriptDone
    /\ microtasks = <<>>
    /\ \E t \in timers :
          /\ Earliest(t)
          /\ t.cb.fn # "pickStudent"
          /\ LET s == [St EXCEPT !.timers = @ \ {t}, !.now = t.due, !.busy = TRUE]
             IN Run(Call(s, t.cb, Undefined).s)
    /\ UNCHANGED <<program, n, delay, outcome, success, pc>>
    /\ UNCHANGED <<rosterVars, gameVars, typeVars>>

(* level90's timer callback; Math.floor(Math.random() * students.length) *)
MyPromiseTimer ==
    /\ ScriptDone
    /\ microtasks = <<>>
    /\ \E t \in timers :
          /\ Earliest(t)
          /\ t.cb.fn = "pickStudent"
          /\ \E randomIndex \in 0..(Len(students) - 1) :
                LET s == [St EXCEPT !.timers = @ \ {t}, !.now = t.due, !.busy = TRUE]
                IN Run(Call(Emit(s, [ev |-> "random", v |-> randomIndex]),
                            t.cb, Num(randomIndex)).s)
    /\ UNCHANGED <<program, n, delay, outcome, success, pc>>
    /\ UNCHANGED <<rosterVars, gameVars, typeVars>>

Next == Script \/ RunMicrotask \/ FireTimer \/ MyPromiseTimer

Spec == Init /\ [][Next]_vars

Quiescent == ScriptDone /\ microtasks = <<>> /\ timers = {}

----------------------------------------------------------------------------
(* Reading the trace *)
Positions(e) == {j \in 1..Len(trace) : trace[j].ev = e}
IsLog(x) == x.ev = "log"
Logged == LET L == SelectSeq(trace, IsLog) IN [j \in 1..Len(L) |-> L[j].v]
Runs(rid) == {j \in Positions("run") : trace[j].rid = rid}
Settles(p) == {j \in Positions("settle") : trace[j].p = p}
IgnoredCalls(p) == {j \in Positions("ignored") : trace[j].p = p}

IsPrefix(a, b) == Len(a) <= Len(b) /\ \A j \in 1..Len(a) : a[j] = b[j]

(* level92par: the joined inputs and the join's result *)
Joined == 1..n
Called == program = "level92par" /\ all.result # 0
Result == promises[all.result]
InputValues == [i \in 1..n |-> Str(Values[i])]
(* trace positions at which a joined input was rejected *)
InputRejections ==
    {j \in Positions("settle") :
        trace[j].kind = "rejected" /\ \E i \in Joined : ref.p[i] = trace[j].p}
FirstRejection == CHOOSE j \in InputRejections : \A k \in InputRejections : j <= k

(* C1: when every joined input fulfils, whatever the order in which the
   timers fire, Promise.all's promise is never rejected, fulfils with the
   inputs' values in input order, and that list is what gets logged. *)
C1_AllKeepsInputOrder ==
    (Called /\ n >= 1 /\ \A i \in Joined : outcome[i] = "resolve") =>
        /\ Result.state # "rejected"
        /\ Result.state = "fulfilled" => Result.value = Arr(InputValues)
        /\ Logged \in {<<>>, <<Arr(InputValues)>>}
        /\ Quiescent => Result.state = "fulfilled" /\ Logged = <<Arr(InputValues)>>

(* the source's run: p1, p3, p2 settle in that order, the result is
   First, Second, Third *)
C1_Witness ==
    /\ Called /\ Quiescent /\ n = NumPromises /\ delay = SourceDelay
    /\ \A i \in Joined : outcome[i] = "resolve"
    /\ \E a \in Settles(ref.p[3]), b \in Settles(ref.p[2]) : a < b
    /\ Result.value = Arr(<<Str("First"), Str("Second"), Str("Third")>>)

(* level92seq *)
Sequential == program = "level92seq"
Invokes(k) == {j \in Positions("invoke") : trace[j].k = k}
LogsOf(k) == {j \in Positions("log") : trace[j].v = Str(Values[k])}
StepPending(k) == ref.step[k] # 0 /\ promises[ref.step[k]].state = "pending"
StepRejected(k) == ref.step[k] # 0 /\ promises[ref.step[k]].state = "rejected"
StepValues == [k \in 1..NumSteps |-> Str(Values[k])]

(* C2: in runSequential a step is called only after the previous step has
   settled and its value has been logged, at most one step is pending at a
   time, and the log is First, Second, Third in that order. *)
C2_StepsInSequence ==
    Sequential =>
        /\ \A k \in 2..NumSteps : \A j \in Invokes(k) :
              /\ \E a \in Settles(ref.step[k - 1]) : a < j
              /\ \E a \in LogsOf(k - 1) : a < j
        /\ \A k \in 1..NumSteps : Cardinality(Invokes(k)) <= 1
        /\ Cardinality({k \in 1..NumSteps : StepPending(k)}) <= 1
        /\ IsPrefix(Logged, StepValues)
        /\ (Quiescent /\ \A k \in 1..NumSteps : outcome[k] = "resolve")
              => Logged = StepValues

C2_Witness ==
    /\ Sequential /\ Quiescent /\ delay = SourceDelay
    /\ \A k \in 1..NumSteps : outcome[k] = "resolve"
    /\ Logged = <<Str("First"), Str("Second"), Str("Third")>>
    /\ now = 4500

(* C3: when a joined input rejects, Promise.all's promise is rejected with
   the error of the input that was rejected first in time; it is never
   fulfilled, and later settlements do not change it. *)
C3_AllRejectsWithFirstRejection ==
    (Called /\ \E i \in Joined : outcome[i] = "reject") =>
        /\ Result.state # "fulfilled"
        /\ Result.state = "rejected" =>
              /\ InputRejections # {}
              /\ Result.error = promises[trace[FirstRejection].p].error
              /\ Result.value = None
        /\ Quiescent => Result.state = "rejected"
        /\ Logged = <<>>

(* p2 and p3 reject, p3 first although it comes later in the input; p1
   fulfils; the second rejection reaches the settled result and is ignored *)
C3_Witness ==
    /\ Called /\ Quiescent /\ n = NumPromises
    /\ outcome = <<"resolve", "reject", "reject">>
    /\ \E a \in Settles(ref.p[3]), b \in Settles(ref.p[2]) : a < b
    /\ Result.state = "rejected" /\ Result.error = Str("Third")
    /\ IgnoredCalls(all.result) # {}

(* C4: when step k of runSequential rejects, no later step is called or
   logged, and runSequential's own promise is rejected with that error. *)
C4_RejectionStopsChain ==
    Sequential => \A k \in 1..NumSteps : StepRejected(k) =>
        /\ \A j \in (k + 1)..NumSteps :
              ref.step[j] = 0 /\ Invokes(j) = {} /\ LogsOf(j) = {}
        /\ LogsOf(k) = {}
        /\ promises[ref.seq].state # "fulfilled"
        /\ promises[ref.seq].state = "rejected" =>
              promises[ref.seq].error = promises[ref.step[k]].error
        /\ Quiescent => promises[ref.seq].state = "rejected"

C4_Witness ==
    /\ Sequential /\ Quiescent /\ StepRejected(2)
    /\ Logged = <<Str("First")>>
    /\ promises[ref.seq].state = "rejected"
    /\ promises[ref.seq].error = Str("Second")

(* Every promise of the heap *)
Ids == DOMAIN promises
WellFormed(q) ==
    /\ q.state \in {"pending", "fulfilled", "rejected"}
    /\ q.state = "pending" => q.value = None /\ q.error = None
    /\ q.state = "fulfilled" => q.value # None /\ q.error = None
    /\ q.state = "rejected" => q.value = None /\ q.error # None
SettledOnce ==
    \A p \in Ids :
        /\ WellFormed(promises[p])
        /\ Cardinality(Settles(p)) = IF promises[p].state = "pending" THEN 0 ELSE 1
StaysSettled ==
    \A p \in Ids :
        /\ p \in DOMAIN promises'
        /\ promises[p].state # "pending" =>
              /\ promises'[p].state = promises[p].state
              /\ promises'[p].value = promises[p].value
              /\ promises'[p].error = promises[p].error

(* C5: a promise is pending with neither value nor error, or fulfilled with
   a value only, or rejected with an error only; it settles at most once,
   and no step (a later resolve or reject included) changes the state,
   value or error of a settled promise. *)
C5_SettlesOnce == [](SettledOnce) /\ [][StaysSettled]_vars

(* reject was called on a promise that had already been rejected *)
C5_Witness ==
    \E p \in Ids :
        /\ promises[p].state = "rejected"
        /\ \E a \in Settles(p), b \in IgnoredCalls(p) : a < b

(* registrations made on a promise that had already settled *)
LateRegistrations == {j \in Positions("register") : trace[j].state # "pending"}
HasHandler(j) ==
    IF trace[j].state = "fulfilled" THEN trace[j].hasF ELSE trace[j].hasR

(* C6: a handler registered on an already settled promise runs at most
   once, only the handler that matches the outcome and with the stored
   value or error, and it has run exactly once when the loop is idle. *)
C6_LateHandlerRunsOnce ==
    \A j \in LateRegistrations :
        LET reg == trace[j]
            runs == Runs(reg.rid)
        IN /\ Cardinality(runs) <= 1
           /\ \A r \in runs :
                 /\ r > j
                 /\ HasHandler(j)
                 /\ trace[r].kind = reg.state
                 /\ trace[r].kind = promises[reg.p].state
                 /\ trace[r].arg = Outcome(St, reg.p)
           /\ (Quiescent /\ HasHandler(j)) => Cardinality(runs) = 1

(* level91 with the executor rejecting: conditionalPromise's failure handler
   and chainPromise's success handler have both run, each once *)
C6_Witness ==
    /\ program = "level91" /\ Quiescent /\ ~success
    /\ \E j \in LateRegistrations :
          /\ trace[j].p = ref.conditionalPromise
          /\ \E r \in Runs(trace[j].rid) :
                trace[r].kind = "rejected" /\ trace[r].arg = Str("Operation failed!")
    /\ \E j \in LateRegistrations :
          /\ trace[j].p = ref.chainPromise
          /\ \E r \in Runs(trace[j].rid) :
                trace[r].kind = "fulfilled" /\ trace[r].arg = Num(5)
    /\ Logged = <<Str("Operation failed!"), Num(20), Str("Data loaded successfully!")>>

(* C7: no handler runs inside the call that registers it or inside any
   other running code: while the script is still running no handler has
   run, and every handler run starts from an empty call stack. *)
C7_HandlersRunLater ==
    /\ ~ScriptDone => Positions("run") = {}
    /\ \A r \in Positions("run") : ~trace[r].nested
    /\ \A j \in Positions("register") : \A r \in Runs(trace[j].rid) : r > j

(* level91: the script has returned, a handler registered on a settled
   promise and one registered on a pending promise have both run *)
C7_Witness ==
    /\ program = "level91" /\ Quiescent
    /\ \E j \in LateRegistrations : Runs(trace[j].rid) # {}
    /\ \E j \in Positions("register") :
          trace[j].state = "pending" /\ Runs(trace[j].rid) # {}

(* C8: Promise.all of an empty list is fulfilled with the empty list as
   soon as the call returns, before any promise has settled. *)
C8_EmptyAllFulfilsAtOnce ==
    (program = "level92par" /\ n = 0 /\ pc > NumPromises + 1) =>
        /\ Result.state = "fulfilled"
        /\ Result.value = Arr(<<>>)
        /\ \A j \in Positions("settle") : \E a \in Settles(all.result) : a <= j

(* right after the call: p1, p2, p3 are still waiting for their timers *)
C8_Witness ==
    /\ Called /\ n = 0 /\ now = 0 /\ Cardinality(timers) = NumPromises
    /\ \A i \in 1..NumPromises : promises[ref.p[i]].state = "pending"
    /\ Result.state = "fulfilled" /\ Result.value = Arr(<<>>)

(* level90 *)
MyPromisePending ==
    /\ program = "level90" /\ ScriptDone
    /\ promises[ref.MyPromise].state = "pending"

(* C9: from pending, MyPromise can become fulfilled with "success" and can
   become rejected with "failure". *)
C9_BothOutcomesReachable ==
    MyPromisePending =>
        /\ ENABLED (Next /\ promises'[ref.MyPromise].state = "fulfilled"
                         /\ promises'[ref.MyPromise].value = Str("success"))
        /\ ENABLED (Next /\ promises'[ref.MyPromise].state = "rejected"
                         /\ promises'[ref.MyPromise].error = Str("failure"))

----------------------------------------------------------------------------
(* 100levelGOA/js.js: the class roster kept in localStorage.               *)
(* Strings are sequences of characters, JSON text is a sequence of tokens. *)

MaxClasses == 2          \* addclass is tried while there are fewer classes
MaxStudents == 2         \* addingstudent is tried while the class is smaller

Null == [null |-> TRUE, list |-> <<>>]
List(l) == [null |-> FALSE, list |-> l]

GOAClass == <<"G", "O", "A", " ", "C", "l", "a", "s", "s", " ">>
KeyName == <<"n", "a", "m", "e">>
KeyStudents == <<"s", "t", "u", "d", "e", "n", "t", "s">>
Digits == <<"0", "1", "2", "3", "4", "5", "6", "7", "8", "9">>

(* what the user may have typed into #studentname *)
InputTexts == {<<>>, <<" ">>, <<"a">>, <<" ", "b", " ">>}

(* "" + k for a number k >= 0 *)
RECURSIVE NumberToString(_)
NumberToString(k) ==
    IF k < 10 THEN <<Digits[k + 1]>>
    ELSE NumberToString(k \div 10) \o <<Digits[(k % 10) + 1]>>

(* A trim that removes the leading spaces only. *)
RECURSIVE trimStart(_)
trimStart(x) ==
    IF x = <<>> THEN x
    ELSE IF Head(x) = " " THEN trimStart(Tail(x))
    ELSE x

(* String.prototype.trim *)
RECURSIVE trim(_)
trim(x) ==
    IF x = <<>> THEN x
    ELSE IF Head(x) = " " THEN trim(Tail(x))
    ELSE IF x[Len(x)] = " " THEN trim(SubSeq(x, 1, Len(x) - 1))
    ELSE x

(* JSON tokens *)
Punct(c) == [p |-> c]
Lit(x) == [s |-> x]

RECURSIVE Commas(_)
Commas(parts) ==
    IF parts = <<>> THEN <<>>
    ELSE IF Len(parts) = 1 THEN parts[1]
    ELSE parts[1] \o <<Punct(",")>> \o Commas(Tail(parts))

stringifyStrings(xs) ==
    <<Punct("[")>> \o Commas([i \in 1..Len(xs) |-> <<Lit(xs[i])>>]) \o <<Punct("]")>>

stringifyClass(c) ==
    <<Punct("{"), Lit(KeyName), Punct(":"), Lit(c.name), Punct(","),
      Lit(KeyStudents), Punct(":")>> \o stringifyStrings(c.students) \o <<Punct("}")>>

(* JSON.stringify(classes) *)
JSONstringify(v) ==
    IF v.null THEN <<Punct("null")>>
    ELSE <<Punct("[")>>
         \o Commas([i \in 1..Len(v.list) |-> stringifyClass(v.list[i])])
         \o <<Punct("]")>>

(* t[i] follows "[" or an element: the strings up to the closing "]" *)
RECURSIVE parseStrings(_, _, _)
parseStrings(t, i, acc) ==
    IF t[i] = Punct("]") THEN [val |-> acc, next |-> i + 1]
    ELSE IF t[i] = Punct(",") THEN parseStrings(t, i + 1, acc)
    ELSE parseStrings(t, i + 1, Append(acc, t[i].s))

(* t[i] is the "{" of {"name": ..., "students": [...]} *)
parseClass(t, i) ==
    LET st == parseStrings(t, i + 8, <<>>)
    IN [val |-> [name |-> t[i + 3].s, students |-> st.val], next |-> st.next + 1]

RECURSIVE parseClasses(_, _, _)
parseClasses(t, i, acc) ==
    IF t[i] = Punct("]") THEN [val |-> acc, next |-> i + 1]
    ELSE IF t[i] = Punct(",") THEN parseClasses(t, i + 1, acc)
    ELSE LET c == parseClass(t, i)
         IN parseClasses(t, c.next, Append(acc, c.val))

(* JSON.parse(text) *)
JSONparse(t) ==
    IF t = <<Punct("null")>> THEN Null
    ELSE List(parseClasses(t, 2, <<>>).val)

(* localStorage.getItem("classes") as JSON.parse reads it: a missing item is
   null, which JSON.parse turns into the text null *)
getItem == IF storage.present THEN storage.text ELSE <<Punct("null")>>

Names(cl) == [i \in 1..Len(cl.list) |-> cl.list[i].name]

(* the class lists an earlier visit can have stored *)
ClassNamed(k, sts) == [name |-> GOAClass \o NumberToString(k), students |-> sts]
StoredStudents == {<<>>, <<<<"a">>>>}
StoredLists ==
    UNION {{[k \in 1..len |-> ClassNamed(k, f[k])] : f \in [1..len -> StoredStudents]}
           : len \in 0..(MaxClasses - 1)}

InitRoster ==
    /\ storage \in {[present |-> FALSE, text |-> <<>>]}
                   \cup {[present |-> TRUE, text |-> JSONstringify(List(l))]
                         : l \in StoredLists}
    /\ classes = Null
    /\ selectedClass = -1
    /\ studentname = <<>>
    /\ classBox = <<>>
    /\ classname = <<>>
    /\ studentlist = <<>>
    /\ loaded = FALSE
    /\ lastOp = "none"
    /\ error = "none"
    (* no promise script runs on this page *)
    /\ program = "roster" /\ n = 0 /\ delay = SourceDelay
    /\ outcome = [i \in 1..NumPromises |-> "resolve"] /\ success = TRUE
    /\ InitLoop
    /\ GameIdle /\ TypeIdle

(* lines 1-3 and 77-86: the script's top level.  showclasses() throws on
   classes.length when classes is null; otherwise line 86 reads the
   undeclared identifier message. *)
load ==
    /\ ~loaded
    /\ loaded' = TRUE
    /\ lastOp' = "load"
    /\ classes' = JSONparse(getItem)
    /\ selectedClass' = -1
    /\ classBox' = IF classes'.null THEN <<>> ELSE Names(classes')
    /\ error' = IF classes'.null THEN "TypeError" ELSE "ReferenceError"
    /\ UNCHANGED <<storage, studentname, classname, studentlist>>
    /\ UNCHANGED <<promiseVars, gameVars, typeVars>>

(* addclass(): classes.length throws when classes is null *)
addclass ==
    /\ loaded
    /\ lastOp' = "addclass"
    /\ IF classes.null
       THEN /\ error' = "TypeError"
            /\ UNCHANGED <<storage, classes, classBox>>
       ELSE /\ Len(classes.list) < MaxClasses
            /\ LET newClass == [name |-> GOAClass \o NumberToString(Len(classes.list) + 1),
                                students |-> <<>>]
               IN classes' = List(Append(classes.list, newClass))
            /\ storage' = [present |-> TRUE, text |-> JSONstringify(classes')]
            /\ classBox' = Names(classes')
            /\ error' = "none"
    /\ UNCHANGED <<selectedClass, studentname, classname, studentlist, loaded>>
    /\ UNCHANGED <<promiseVars, gameVars, typeVars>>

(* btn.onclick of the i-th button (i counts from 0) *)
onclick ==
    /\ loaded
    /\ \E i \in 0..(Len(classBox) - 1) :
          /\ selectedClass' = i
          /\ classname' = classes.list[i + 1].name
          /\ studentlist' = classes.list[i + 1].students
    /\ lastOp' = "onclick"
    /\ error' = "none"
    /\ UNCHANGED <<storage, classes, studentname, classBox, loaded>>
    /\ UNCHANGED <<promiseVars, gameVars, typeVars>>

(* the user edits #studentname *)
input ==
    /\ loaded
    /\ \E x \in InputTexts : studentname' = x
    /\ lastOp' = "input"
    /\ error' = "none"
    /\ UNCHANGED <<storage, classes, selectedClass, classBox, classname, studentlist, loaded>>
    /\ UNCHANGED <<promiseVars, gameVars, typeVars>>

(* An addingstudent that forgets to call save(). *)
addingstudentNoSave ==
    /\ loaded
    /\ lastOp' = "addingstudent"
    /\ error' = "none"
    /\ LET name == trim(studentname)
       IN IF selectedClass = -1 \/ name = <<>>
          THEN UNCHANGED <<classes, studentname, studentlist>>
          ELSE /\ Len(classes.list[selectedClass + 1].students) < MaxStudents
               /\ classes' = List([classes.list EXCEPT
                                     ![selectedClass + 1].students = Append(@, name)])
               /\ studentlist' = classes'.list[selectedClass + 1].students
               /\ studentname' = <<>>
    /\ UNCHANGED <<storage, selectedClass, classBox, classname, loaded>>
    /\ UNCHANGED <<promiseVars, gameVars, typeVars>>

addingstudent ==
    /\ loaded
    /\ lastOp' = "addingstudent"
    /\ error' = "none"
    /\ LET name == trim(studentname)
       IN IF selectedClass = -1 \/ name = <<>>
          THEN UNCHANGED <<storage, classes, studentname, studentlist>>
          ELSE /\ Len(classes.list[selectedClass + 1].students) < MaxStudents
               /\ classes' = List([classes.list EXCEPT
                                     ![selectedClass + 1].students = Append(@, name)])
               /\ storage' = [present |-> TRUE, text |-> JSONstringify(classes')]
               /\ studentlist' = classes'.list[selectedClass + 1].students
               /\ studentname' = <<>>
    /\ UNCHANGED <<selectedClass, classBox, classname, loaded>>
    /\ UNCHANGED <<promiseVars, gameVars, typeVars>>

NextRoster == load \/ addclass \/ onclick \/ input \/ addingstudent

SpecRoster == InitRoster /\ [][NextRoster]_vars

(* C10: whatever the "classes" item holds when the page is opened, also
   when it is missing, a call of addclass appends one class named
   "GOA Class n+1" with no students after the n classes there were, keeps
   those unchanged and ends without an exception. *)
C10_AddclassAppendsOneClass ==
    [][addclass =>
          /\ ~classes.null
          /\ error' = "none"
          /\ classes' = List(Append(classes.list,
                [name |-> GOAClass \o NumberToString(Len(classes.list) + 1),
                 students |-> <<>>]))]_vars

(* what "x with the spaces at both ends removed" means, said without trim *)
AllSpaces(x) == \A i \in 1..Len(x) : x[i] = " "
IsTrimOf(y, x) ==
    /\ y # <<>> /\ Head(y) # " " /\ y[Len(y)] # " "
    /\ \E a \in 0..Len(x) :
          /\ a + Len(y) <= Len(x)
          /\ SubSeq(x, a + 1, a + Len(y)) = y
          /\ AllSpaces(SubSeq(x, 1, a))
          /\ AllSpaces(SubSeq(x, a + Len(y) + 1, Len(x)))

(* C11: addingstudent changes neither classes nor the stored item nor the
   input when no class is selected or the input holds only spaces;
   otherwise it appends the input without its surrounding spaces to the end
   of the selected class's students, changes no other class, and empties
   the input. *)
C11_AddingstudentFrame ==
    [][addingstudent =>
          IF selectedClass = -1 \/ AllSpaces(studentname)
          THEN UNCHANGED <<classes, storage, studentname>>
          ELSE /\ ~classes.null /\ ~classes'.null
               /\ selectedClass + 1 \in 1..Len(classes.list)
               /\ \E name \in {trim(x) : x \in InputTexts} \cup {studentname} :
                     /\ IsTrimOf(name, studentname)
                     /\ classes'.list = [classes.list EXCEPT
                           ![selectedClass + 1].students = Append(@, name)]
               /\ studentname' = <<>>
               /\ error' = "none"]_vars

(* " b " was typed with the second class selected: b is its only student *)
C11_Witness ==
    /\ lastOp = "addingstudent" /\ selectedClass = 1
    /\ Len(classes.list) = 2
    /\ classes.list[2].students = << <<"b">> >>
    /\ studentname = <<>>
    /\ studentlist = << <<"b">> >>

(* C12: once the page has loaded a stored list, the stored item is the
   serialisation of classes (and parses back to it), and selectedClass is
   -1 or an index of classes. *)
C12_StoredMatchesClasses ==
    (loaded /\ storage.present) =>
        /\ ~classes.null
        /\ storage.text = JSONstringify(classes)
        /\ JSONparse(storage.text) = classes
        /\ selectedClass \in -1..(Len(classes.list) - 1)

(* two classes, the first selected, a and b added to it and saved *)
C12_Witness ==
    /\ loaded /\ storage.present /\ lastOp = "addingstudent"
    /\ selectedClass = 0 /\ Len(classes.list) = 2
    /\ classes.list[1].students = << <<"a">>, <<"b">> >>
    /\ storage.text = JSONstringify(classes)

-----------------------------------------------------------------------------
(* src/project/js2.js: the points game.  The file holds the script twice
   (lines 1-34 and 36-69); copy says which of the two is the page's script.
   The second writes the property Text where the first writes innerText. *)

MaxEarned == 25

SwordBought == " Sword bought! Mobs will spawn!"
NotEnough == " Not enough points!"

InitGame ==
    /\ copy \in {1, 2}
    /\ points = 0
    /\ pointsDisplay = 0
    /\ pointsText = 0
    /\ message = [innerText |-> "none", Text |-> "none"]
    /\ mobs = 0
    /\ earned = 0
    /\ called = "none"
    (* no promise script, roster or typing animation on this page *)
    /\ program = "game" /\ n = 0 /\ delay = SourceDelay
    /\ outcome = [i \in 1..NumPromises |-> "resolve"] /\ success = TRUE
    /\ InitLoop
    /\ RosterIdle /\ TypeIdle

(* the display after updatePointsDisplay() has run with points = p *)
updatePointsDisplay(p) ==
    IF copy = 1
    THEN pointsDisplay' = p /\ UNCHANGED pointsText
    ELSE pointsText' = p /\ UNCHANGED pointsDisplay

(* the element #message after one of its texts has been set *)
setMessage(text) ==
    IF copy = 1
    THEN message' = [message EXCEPT !.innerText = text]
    ELSE message' = [message EXCEPT !.Text = text]

spawnMob == mobs' = mobs + 1

addPoint ==
    /\ earned < MaxEarned
    /\ points' = points + 1
    /\ earned' = earned + 1
    /\ updatePointsDisplay(points')
    /\ called' = "addPoint"
    /\ UNCHANGED <<copy, message, mobs>>
    /\ UNCHANGED <<promiseVars, rosterVars, typeVars>>

(* "points + 100" is an expression statement: it assigns nothing *)
add100 ==
    /\ points' = points
    /\ updatePointsDisplay(points')
    /\ called' = "add100"
    /\ UNCHANGED <<copy, message, mobs, earned>>
    /\ UNCHANGED <<promiseVars, rosterVars, typeVars>>

(* a buySword without the test points >= 10 *)
buySwordNoCheck ==
    /\ points' = points - 10
    /\ updatePointsDisplay(points')
    /\ setMessage(SwordBought)
    /\ spawnMob
    /\ called' = "buySword"
    /\ UNCHANGED <<copy, earned>>
    /\ UNCHANGED <<promiseVars, rosterVars, typeVars>>

buySword ==
    /\ IF points >= 10
       THEN /\ points' = points - 10
            /\ updatePointsDisplay(points')
            /\ setMessage(SwordBought)
            /\ spawnMob
       ELSE /\ setMessage(NotEnough)
            /\ UNCHANGED <<points, pointsDisplay, pointsText, mobs>>
    /\ called' = "buySword"
    /\ UNCHANGED <<copy, earned>>
    /\ UNCHANGED <<promiseVars, rosterVars, typeVars>>

NextGame == addPoint \/ add100 \/ buySword

SpecGame == InitGame /\ [][NextGame]_vars

(* C13: a call of add100 leaves points 100 higher than before and the
   points display showing the new value. *)
C13_Add100AddsHundred ==
    [][add100 => /\ points' = points + 100
                 /\ pointsDisplay' = points']_vars

(* C14: points is never negative and ten times the mobs spawned never
   exceeds the points earned; a buySword call with points >= 10 takes 10
   points and spawns one mob, and with fewer points changes neither. *)
C14_PointsNeverNegative ==
    /\ [](/\ points >= 0
          /\ 10 * mobs <= earned
          /\ points + 10 * mobs = earned)
    /\ [][buySword =>
            IF points >= 10
            THEN points' = points - 10 /\ mobs' = mobs + 1
            ELSE points' = points /\ mobs' = mobs]_vars

(* two swords bought out of 25 points, the third refused *)
C14_Witness ==
    /\ called = "buySword"
    /\ earned = 25 /\ mobs = 2 /\ points = 5
    /\ NotEnough \in {message.innerText, message.Text}

-----------------------------------------------------------------------------
(* src/unnamed/part_003, lines 63-90: the typing animation.  A string is
   the sequence of its characters; wIndex and cIndex count from 0 as in
   the source. *)

words ==
    <<
    (* "A Massive Python RPG Project" *)
       <<"A", " ", "M", "a", "s", "s", "i", "v", "e", " ", "P", "y", "t",
         "h", "o", "n", " ", "R", "P", "G", " ", "P", "r", "o", "j", "e",
         "c", "t">>,
    (* "500+ Lines of Code" *)
       <<"5", "0", "0", "+", " ", "L", "i", "n", "e", "s", " ", "o", "f",
         " ", "C", "o", "d", "e">>,
    (* "Terminal-Based Combat" *)
       <<"T", "e", "r", "m", "i", "n", "a", "l", "-", "B", "a", "s", "e",
         "d", " ", "C", "o", "m", "b", "a", "t">>,
    (* "Quests, Enemies, Loot, Skills" *)
       <<"Q", "u", "e", "s", "t", "s", ",", " ", "E", "n", "e", "m", "i",
         "e", "s", ",", " ", "L", "o", "o", "t", ",", " ", "S", "k", "i",
         "l", "l", "s">>,
    (* "Your Own RPG Adventure" *)
       <<"Y", "o", "u", "r", " ", "O", "w", "n", " ", "R", "P", "G", " ",
         "A", "d", "v", "e", "n", "t", "u", "r", "e">>
    >>

(* String.prototype.substring: both arguments are clamped to 0..length and
   swapped when the first is the larger *)
substring(s, start, end) ==
    LET clamp(x) == IF x < 0 THEN 0 ELSE IF x > Len(s) THEN Len(s) ELSE x
        a == clamp(start)
        b == clamp(end)
    IN IF a <= b THEN SubSeq(s, a + 1, b) ELSE SubSeq(s, b + 1, a)

(* the text of the element .typing in the page's markup *)
MarkupTexts == {<<>>, <<"?">>}

InitType ==
    /\ wIndex = 0
    /\ cIndex = 0
    /\ deleting = FALSE
    /\ typingText \in MarkupTexts
    /\ typeStarted = FALSE
    (* no promise script, roster or game on this page *)
    /\ program = "typing" /\ n = 0 /\ delay = SourceDelay
    /\ outcome = [i \in 1..NumPromises |-> "resolve"] /\ success = TRUE
    /\ InitLoop
    /\ RosterIdle /\ GameIdle

(* a type() that starts the next word one tick early, on cIndex <= 0 *)
typeEarly ==
    /\ LET currentWord == words[wIndex + 1]
       IN IF ~deleting
          THEN /\ typingText' = substring(currentWord, 0, cIndex)
               /\ cIndex' = cIndex + 1
               /\ deleting' = (cIndex' = Len(currentWord) + 1)
               /\ UNCHANGED wIndex
          ELSE /\ typingText' = substring(currentWord, 0, cIndex)
               /\ cIndex' = cIndex - 1
               /\ IF cIndex' <= 0
                  THEN /\ deleting' = FALSE
                       /\ wIndex' = (wIndex + 1) % Len(words)
                  ELSE UNCHANGED <<deleting, wIndex>>
    /\ typeStarted' = TRUE
    /\ UNCHANGED <<promiseVars, rosterVars, gameVars>>

(* one tick: the call of line 90 or a timer set by line 88 *)
type ==
    /\ LET currentWord == words[wIndex + 1]
       IN IF ~deleting
          THEN /\ typingText' = substring(currentWord, 0, cIndex)
               /\ cIndex' = cIndex + 1
               /\ deleting' = (cIndex' = Len(currentWord) + 1)
               /\ UNCHANGED wIndex
          ELSE /\ typingText' = substring(currentWord, 0, cIndex)
               /\ cIndex' = cIndex - 1
               /\ IF cIndex' < 0
                  THEN /\ deleting' = FALSE
                       /\ wIndex' = (wIndex + 1) % Len(words)
                  ELSE UNCHANGED <<deleting, wIndex>>
    /\ typeStarted' = TRUE
    /\ UNCHANGED <<promiseVars, rosterVars, gameVars>>

NextType == type

(* every tick sets the timer of the next one (line 88), and a timer that
   is set fires *)
SpecType == InitType /\ [][NextType]_vars /\ WF_vars(type)

(* word w is shown in full / has just been erased *)
ShownInFull(w) == typeStarted /\ wIndex = w /\ typingText = words[w + 1]
Erased(w) ==
    /\ typeStarted /\ typingText = <<>> /\ cIndex = -1
    /\ wIndex = (w + 1) % Len(words)

(* C15: once type() has run, wIndex is an index of words, cIndex lies in
   -1 .. length of the current word + 1, and the text shown is a prefix of
   the current word; wIndex only ever moves to the next index, wrapping
   round; and every word is shown in full again and again, each time to be
   erased completely afterwards. *)
C15_TypingCycles ==
    /\ [](/\ wIndex \in 0..(Len(words) - 1)
          /\ cIndex >= -1
          /\ cIndex <= Len(words[wIndex + 1]) + 1
          /\ typeStarted => IsPrefix(typingText, words[wIndex + 1]))
    /\ [][wIndex' = wIndex \/ wIndex' = (wIndex + 1) % Len(words)]_vars
    /\ \A w \in 0..(Len(words) - 1) :
          /\ []<>ShownInFull(w)
          /\ ShownInFull(w) ~> Erased(w)

(* the last word has been typed and erased: the first is about to start
   again *)
C15_Witness ==
    /\ typeStarted /\ wIndex = 0 /\ cIndex = -1 /\ ~deleting
    /\ typingText = <<>>

====
